---------------------------- MODULE Spec2Model ----------------------------
(***************************************************************************)
(* A model of the adamath lexer (src/src/lexer.rs) and of its driver       *)
(* (src/src/main.rs).                                                      *)
(*                                                                         *)
(* A character is a one-character string, or, outside ASCII, the name of    *)
(* its code point ("U+00E9").  The lexer keeps the source                  *)
(* twice: `source`, the Vec<char> it indexes with `index`, and `full_str`, *)
(* the &str it slices with the same numbers.  A &str is indexed by BYTE,   *)
(* so full_str is modelled as the sequence of the UTF-8 bytes of the text: *)
(* the byte <<c, k>> is the k-th byte (from 0) of the encoding of c.       *)
(* All positions are 0-based, as in the code; At(s, i) reads position i.   *)
(***************************************************************************)
EXTENDS Integers, Sequences, FiniteSets, TLC

(***************************************************************************)
(* Bounds of the model.                                                    *)
(***************************************************************************)
\* longest source drawn from the alphabets below
MaxLen == 3
\* how far past the end of the source a client may push the cursor
MaxOver == 2

(***************************************************************************)
(* Characters.                                                             *)
(***************************************************************************)
Digits == {"0", "1", "2", "3", "4", "5", "6", "7", "8", "9"}

LowerLetters ==
    {"a", "b", "c", "d", "e", "f", "g", "h", "i", "j", "k", "l", "m",
     "n", "o", "p", "q", "r", "s", "t", "u", "v", "w", "x", "y", "z"}

UpperLetters ==
    {"A", "B", "C", "D", "E", "F", "G", "H", "I", "J", "K", "L", "M",
     "N", "O", "P", "Q", "R", "S", "T", "U", "V", "W", "X", "Y", "Z"}

\* 'a'..='z' | 'A'..='Z'
IsLetter(c) == c \in LowerLetters \cup UpperLetters

\* '0'..='9'
IsDigit(c) == c \in Digits

\* Option<char>::None, as returned by next() and peek()
NoChar == "None"

\* characters of the model whose UTF-8 encoding takes two bytes
TwoByteChars == {"U+00E9"}

Utf8Len(c) == IF c \in TwoByteChars THEN 2 ELSE 1

Utf8Bytes(c) == IF Utf8Len(c) = 2 THEN << <<c, 0>>, <<c, 1>> >> ELSE << <<c, 0>> >>

At(s, i) == s[i + 1]

RECURSIVE ToBytes(_)
\* the UTF-8 bytes of a text: what a &str holds
ToBytes(chars) ==
    IF chars = << >> THEN << >>
    ELSE Utf8Bytes(Head(chars)) \o ToBytes(Tail(chars))

\* source.chars().collect(): a &str, decoded back to its characters
ToChars(bytes) ==
    LET firsts == SelectSeq(bytes, LAMBDA b : b[2] = 0)
    IN  [k \in 1..Len(firsts) |-> firsts[k][1]]

\* str::is_char_boundary
IsCharBoundary(bytes, i) ==
    \/ i = 0
    \/ i = Len(bytes)
    \/ i < Len(bytes) /\ At(bytes, i)[2] = 0

\* does full_str[a..b] panic?  (byte index out of range or inside a character)
SlicePanics(bytes, a, b) ==
    \/ a > b
    \/ b > Len(bytes)
    \/ ~IsCharBoundary(bytes, a)
    \/ ~IsCharBoundary(bytes, b)

\* full_str[a..b] when it does not panic, as characters
Slice(bytes, a, b) == ToChars(SubSeq(bytes, a + 1, b))


(***************************************************************************)
(* str::parse::<f64>() (core::num::dec2flt), the library call of the       *)
(* constant arm.  It accepts                                               *)
(*     Float  ::= Sign? ( 'inf' | 'infinity' | 'nan' | Number )            *)
(*     Number ::= ( Digit+ | Digit+ '.' Digit* | Digit* '.' Digit+ ) Exp?  *)
(*     Exp    ::= 'e' Sign? Digit+          Sign ::= [+-]                  *)
(* without regard to case.  A finite value is kept as the decimal          *)
(* mant * 10^exp with mant free of trailing zeros: for the short texts of  *)
(* the model (at most 15 significant digits) two texts give the same f64   *)
(* exactly when they denote the same decimal, and no exponent reaches the  *)
(* range where f64 overflows to infinity.                                  *)
(***************************************************************************)
DigitSeq == <<"0", "1", "2", "3", "4", "5", "6", "7", "8", "9">>

DigitVal(c) == CHOOSE d \in 0..9 : DigitSeq[d + 1] = c

RECURSIVE DigitsValue(_)
DigitsValue(ds) ==
    IF ds = << >> THEN 0
    ELSE 10 * DigitsValue(SubSeq(ds, 1, Len(ds) - 1)) + DigitVal(ds[Len(ds)])

AllDigits(ds) == \A k \in 1..Len(ds) : IsDigit(ds[k])

\* the first position (1-based) of a character of set S in text, or 0
FirstIn(text, S) ==
    IF \E k \in 1..Len(text) : text[k] \in S
    THEN CHOOSE k \in 1..Len(text) :
             text[k] \in S /\ \A j \in 1..(k - 1) : text[j] \notin S
    ELSE 0

RECURSIVE Normalise(_, _)
\* one decimal, one representation: no trailing zero in the mantissa
Normalise(m, e) ==
    IF m = 0 THEN [mant |-> 0, exp |-> 0]
    ELSE IF m % 10 = 0 THEN Normalise(m \div 10, e + 1)
    ELSE [mant |-> m, exp |-> e]

\* the f64 payload of a token that carries none
NoValue == [class |-> "none", neg |-> FALSE, mant |-> 0, exp |-> 0]

ParseFailure == [ok |-> FALSE, value |-> NoValue]

LowerSeq ==
    <<"a", "b", "c", "d", "e", "f", "g", "h", "i", "j", "k", "l", "m",
      "n", "o", "p", "q", "r", "s", "t", "u", "v", "w", "x", "y", "z">>

UpperSeq ==
    <<"A", "B", "C", "D", "E", "F", "G", "H", "I", "J", "K", "L", "M",
      "N", "O", "P", "Q", "R", "S", "T", "U", "V", "W", "X", "Y", "Z">>

\* u8::to_ascii_lowercase, by which dec2flt compares the special names
ToLower(c) ==
    IF c \in UpperLetters
    THEN LowerSeq[CHOOSE k \in 1..Len(UpperSeq) : UpperSeq[k] = c]
    ELSE c

LowerText(text) == [k \in 1..Len(text) |-> ToLower(text[k])]

InfNames == { <<"i", "n", "f">>, <<"i", "n", "f", "i", "n", "i", "t", "y">> }

NanNames == { <<"n", "a", "n">> }

\* Number: the mantissa digits, the optional exponent
ParseNumber(neg, text) ==
    LET ePos  == FirstIn(text, {"e", "E"})
        mtext == IF ePos = 0 THEN text ELSE SubSeq(text, 1, ePos - 1)
        etext == IF ePos = 0 THEN << >> ELSE SubSeq(text, ePos + 1, Len(text))
        eNeg  == etext # << >> /\ Head(etext) = "-"
        edig  == IF etext # << >> /\ Head(etext) \in {"+", "-"}
                 THEN Tail(etext) ELSE etext
        dot   == FirstIn(mtext, {"."})
        ipart == IF dot = 0 THEN mtext ELSE SubSeq(mtext, 1, dot - 1)
        fpart == IF dot = 0 THEN << >> ELSE SubSeq(mtext, dot + 1, Len(mtext))
        eval  == IF eNeg THEN 0 - DigitsValue(edig) ELSE DigitsValue(edig)
        n     == Normalise(DigitsValue(ipart \o fpart), eval - Len(fpart))
    IN  IF /\ AllDigits(ipart) /\ AllDigits(fpart)
           /\ Len(ipart) + Len(fpart) > 0
           /\ (ePos # 0 => (edig # << >> /\ AllDigits(edig)))
        THEN [ok |-> TRUE,
              value |-> [class |-> "finite", neg |-> neg,
                         mant |-> n.mant, exp |-> n.exp]]
        ELSE ParseFailure

\* text.parse::<f64>()
ParseF64(text) ==
    LET signed == text # << >> /\ Head(text) \in {"+", "-"}
        neg    == text # << >> /\ Head(text) = "-"
        rest   == IF signed THEN Tail(text) ELSE text
    IN  IF rest = << >> THEN ParseFailure
        ELSE IF LowerText(rest) \in InfNames
        THEN [ok |-> TRUE,
              value |-> [class |-> "inf", neg |-> neg, mant |-> 0, exp |-> 0]]
        ELSE IF LowerText(rest) \in NanNames
        THEN [ok |-> TRUE,
              value |-> [class |-> "nan", neg |-> neg, mant |-> 0, exp |-> 0]]
        ELSE ParseNumber(neg, rest)


(***************************************************************************)
(* Tokens and results.                                                     *)
(***************************************************************************)
\* the String payload of a token that carries none
NoName == << >>

\* Token::new: the token type with its payload, and the span start..end
Token(token_type, name, value, span_start, span_end) ==
    [token_type |-> token_type, name |-> name, value |-> value,
     span |-> [start |-> span_start, end |-> span_end]]

NoToken == Token("-", NoName, NoValue, 0, 0)

NoError == [format |-> "-", pos |-> 0, shown |-> << >>]

\* Token::some_token: Ok(Some(token))
some_token(token_type, name, value, span_start, span_end) ==
    [tag |-> "Ok",
     token |-> Token(token_type, name, value, span_start, span_end),
     error |-> NoError]

\* Err(format!(fmt, pos, shown))
Err(fmt, pos, shown) ==
    [tag |-> "Err", token |-> NoToken,
     error |-> [format |-> fmt, pos |-> pos, shown |-> shown]]

\* the call does not return: the slice of full_str panicked
Panic == [tag |-> "Panic", token |-> NoToken, error |-> NoError]

BangFormat ==
    "Bang is not supposed to be combinated with something else than = at position {}, currently {}"

NumberFormat == "Bad-formatted number starting at position {}: {}"

UnexpectedFormat == "Unexpected character at position {}: {}"

\* the one-character arms with two of them exchanged
SingleCharKind_exchanged ==
    [c \in {" ", "+", "-", "*", "/", "^", ".", "(", ")", "="} |->
        CASE c = " " -> "Space"
          [] c = "+" -> "Plus"
          [] c = "-" -> "Minus"
          [] c = "*" -> "Multiply"
          [] c = "/" -> "Divide"
          [] c = "^" -> "Power"
          [] c = "." -> "Dot"
          [] c = "(" -> "ClosingParenthesis"
          [] c = ")" -> "OpeningParenthesis"
          [] c = "=" -> "Equals"]

\* the one-character arms of the match
SingleCharKind ==
    [c \in {" ", "+", "-", "*", "/", "^", ".", "(", ")", "="} |->
        CASE c = " " -> "Space"
          [] c = "+" -> "Plus"
          [] c = "-" -> "Minus"
          [] c = "*" -> "Multiply"
          [] c = "/" -> "Divide"
          [] c = "^" -> "Power"
          [] c = "." -> "Dot"
          [] c = "(" -> "OpeningParenthesis"
          [] c = ")" -> "ClosingParenthesis"
          [] c = "=" -> "Equals"]

(***************************************************************************)
(* The lexer.  Each operator takes the fields of the Lexer it reads and    *)
(* returns the new index with the value returned.                          *)
(***************************************************************************)
\* next giving up one character before the end of the source
next_early(source, index) ==
    [index |-> index + 1,
     ret   |-> IF index + 1 >= Len(source) THEN NoChar
               ELSE At(source, (index + 1) - 1)]

\* Lexer::next: the index moves first, whatever is returned
next(source, index) ==
    [index |-> index + 1,
     ret   |-> IF index + 1 > Len(source) THEN NoChar
               ELSE At(source, (index + 1) - 1)]

\* Lexer::peek
peek(source, index) ==
    IF index >= Len(source) THEN NoChar ELSE At(source, index)

RECURSIVE constant_run(_, _, _)
\* the loop of the constant arm, up to the arm that ends it
constant_run(source, index, span_end) ==
    IF peek(source, index) \in Digits \cup {".", "_"}
    THEN constant_run(source, next(source, index).index, span_end + 1)
    ELSE [index |-> index, span_end |-> span_end]

RECURSIVE variable_run(_, _, _)
\* the loop of the variable arm, up to the arm that ends it
variable_run(source, index, span_end) ==
    IF IsLetter(peek(source, index))
    THEN variable_run(source, next(source, index).index, span_end + 1)
    ELSE [index |-> index, span_end |-> span_end]

\* the comparison arms consuming the character they looked at
comparison_arm_consuming(source, index, span_start, two, one) ==
    IF peek(source, index) = "="
    THEN LET i == next(source, index).index
         IN  [index |-> i,
              ret |-> some_token(two, NoName, NoValue, span_start, i + 1)]
    ELSE [index |-> IF peek(source, index) = NoChar THEN index
                    ELSE next(source, index).index,
          ret |-> some_token(one, NoName, NoValue, index - 1, index)]

\* '>' and '<': the token of two characters or of one
comparison_arm(source, index, span_start, two, one) ==
    IF peek(source, index) = "="
    THEN LET i == next(source, index).index
         IN  [index |-> i,
              ret |-> some_token(two, NoName, NoValue, span_start, i + 1)]
    ELSE [index |-> index,
          ret |-> some_token(one, NoName, NoValue, index - 1, index)]

\* what an arm of the match leaves when it returns nothing from scan_token
NoRet == [tag |-> "-", token |-> NoToken, error |-> NoError]

\* the bang arm consuming the character it complains about
bang_arm_consuming(source, index, span_start) ==
    IF peek(source, index) # NoChar
    THEN IF peek(source, index) = "="
         THEN LET i == next(source, index).index
              IN  [index |-> i,
                   ret |-> some_token("NotEqual", NoName, NoValue,
                                      span_start, i + 1)]
         ELSE [index |-> next(source, index).index,
               ret |-> Err(BangFormat, index - 1, <<peek(source, index)>>)]
    ELSE [index |-> index, ret |-> NoRet]

\* '!': NotEqual, or the failure; with no character after the bang the arm
\* returns nothing and the while loop goes round again
bang_arm(source, index, span_start) ==
    IF peek(source, index) # NoChar
    THEN IF peek(source, index) = "="
         THEN LET i == next(source, index).index
              IN  [index |-> i,
                   ret |-> some_token("NotEqual", NoName, NoValue,
                                      span_start, i + 1)]
         ELSE [index |-> index,
               ret |-> Err(BangFormat, index - 1, <<peek(source, index)>>)]
    ELSE [index |-> index, ret |-> NoRet]

\* '0'..='9'
constant_arm(source, full_str, index) ==
    LET span_start == index - 1
        run == constant_run(source, index, index)
        text == Slice(full_str, span_start, run.span_end)
        parsed_value == ParseF64(text)
    IN  [index |-> run.index,
         ret |-> IF SlicePanics(full_str, span_start, run.span_end) THEN Panic
                 ELSE IF ~parsed_value.ok
                 THEN Err(NumberFormat, span_start, text)
                 ELSE some_token("Constant", NoName, parsed_value.value,
                                 span_start, run.span_end)]

\* the variable arm giving a name followed by '(' the Function kind
variable_arm_function(source, full_str, index) ==
    LET span_start == index - 1
        run == variable_run(source, index, index)
    IN  [index |-> run.index,
         ret |-> IF SlicePanics(full_str, span_start, run.span_end) THEN Panic
                 ELSE some_token(IF peek(source, run.index) = "("
                                 THEN "Function" ELSE "Variable",
                                 Slice(full_str, span_start, run.span_end),
                                 NoValue, span_start, run.span_end)]

\* 'a'..='z' | 'A'..='Z'
variable_arm(source, full_str, index) ==
    LET span_start == index - 1
        run == variable_run(source, index, index)
    IN  [index |-> run.index,
         ret |-> IF SlicePanics(full_str, span_start, run.span_end) THEN Panic
                 ELSE some_token("Variable",
                                 Slice(full_str, span_start, run.span_end),
                                 NoValue, span_start, run.span_end)]

\* the default arm reporting the cursor, not the character's position
unexpected_arm_cursor(index, character) ==
    [index |-> index,
     ret |-> Err(UnexpectedFormat, index, <<character>>)]

\* _ => the failure on a character no other arm takes
unexpected_arm(index, character) ==
    [index |-> index,
     ret |-> Err(UnexpectedFormat, index - 1, <<character>>)]

RECURSIVE scan_loop(_, _, _, _)
\* while let Some(character) = self.next() { match character { ... } }
\* and the return that follows the loop
scan_loop(source, full_str, index0, span_start) ==
    LET character == next(source, index0).ret
        index == next(source, index0).index
    IN  IF character = NoChar
        THEN [index |-> index,
              ret |-> [tag |-> "Ok",
                       token |-> Token("EndOfExpression", NoName, NoValue,
                                       index - 1, index),
                       error |-> NoError]]
        ELSE IF character \in DOMAIN SingleCharKind
        THEN [index |-> index,
              ret |-> some_token(SingleCharKind[character], NoName, NoValue,
                                 index - 1, index)]
        ELSE IF character = ">"
        THEN comparison_arm(source, index, span_start, "GreaterEqual", "Greater")
        ELSE IF character = "<"
        THEN comparison_arm(source, index, span_start, "LessEqual", "Less")
        ELSE IF character = "!"
        THEN IF bang_arm(source, index, span_start).ret = NoRet
             THEN scan_loop(source, full_str, index, span_start)
             ELSE bang_arm(source, index, span_start)
        ELSE IF IsDigit(character)
        THEN constant_arm(source, full_str, index)
        ELSE IF IsLetter(character)
        THEN variable_arm(source, full_str, index)
        ELSE unexpected_arm(index, character)

\* Lexer::scan_token
scan_token(source, full_str, index) ==
    scan_loop(source, full_str, index, index + 1)


(***************************************************************************)
(* The inputs of the model: every text of at most MaxLen characters over   *)
(* the one-character tokens, every text of at most MaxLen characters over  *)
(* Alphabet, and the texts the driver and the documentation name.          *)
(***************************************************************************)
Alphabet == {"1", ".", "_", "a", "<", ">", "!", "=", " ", "U+00E9"}

TextsOver(S) == UNION {[1..n -> S] : n \in 0..MaxLen}

\* to_parse of main: "5 <= 35*test^2 <= 35"
MainText ==
    <<"5", " ", "<", "=", " ", "3", "5", "*", "t", "e", "s", "t", "^", "2",
      " ", "<", "=", " ", "3", "5">>

NamedTexts ==
    { MainText,
      <<"a", "b", "c", "1", "2", "3">>,
      <<"1", ".", "2", ".", "3">>,
      <<"1", "_", "_", "2">>,
      <<"!", "x">>,
      <<"s", "i", "n", "(", "x", ")">>,
      <<"a", "#", "b">>,
      <<"x", " ", ">", "=", " ", "1", "2", ".", "5", "0">>,
      <<"U+00E9", "+", "1", "2">>,
      <<"U+00E9", "U+00E9", "1", "e", "5", "2", "3">>,
      <<"U+00E9", "U+00E9", "a", "b">> }

Texts == TextsOver(DOMAIN SingleCharKind) \cup TextsOver(Alphabet) \cup NamedTexts

(***************************************************************************)
(* State.                                                                  *)
(***************************************************************************)
VARIABLES
    full_str,   \* Lexer.full_str: the text, as the bytes of a &str
    source,     \* Lexer.source: the text, as a Vec<char>
    index,      \* Lexer.index: the cursor
    pc,         \* who drives the lexer: main's loop ("main_loop", then
                \* "main_returned"), or a client of the library calling its
                \* public methods ("client"); "panicked" after a panic
    result,     \* the last call on the lexer and what it returned
    out,        \* the results main's loop received from scan_token, in order
    stdout,     \* what main printed with println!
    stderr      \* what main printed with eprintln!

vars == <<full_str, source, index, pc, result, out, stdout, stderr>>

\* a call: the method, the index it started at, what it returned
Call(op, start, ret, ch) == [op |-> op, start |-> start, ret |-> ret, ch |-> ch]

\* Lexer::new
new(text) == [full_str |-> text, source |-> ToChars(text), index |-> 0]

Init ==
    /\ \E chars \in Texts :
          /\ full_str = new(ToBytes(chars)).full_str
          /\ source = new(ToBytes(chars)).source
          /\ index = new(ToBytes(chars)).index
    /\ pc \in {"main_loop", "client"}
    /\ result = Call("new", 0, NoRet, NoChar)
    /\ out = << >>
    /\ stdout = << >>
    /\ stderr = << >>

\* one turn of main's loop: scan_token, then the match on what it returned.
\* to_parse is the text the lexer was made from.
MainLoop ==
    /\ pc = "main_loop"
    /\ LET r == scan_token(source, full_str, index)
       IN  /\ index' = r.index
           /\ result' = Call("scan_token", index, r.ret, NoChar)
           /\ out' = Append(out, [start |-> index, index |-> r.index, ret |-> r.ret])
           /\ pc' = CASE r.ret.tag = "Panic" -> "panicked"
                      [] r.ret.tag = "Ok" /\ r.ret.token.token_type = "EndOfExpression"
                            -> "main_returned"
                      [] OTHER -> "main_loop"
           /\ stdout' = IF r.ret.tag = "Ok" /\ r.ret.token.token_type # "EndOfExpression"
                        THEN Append(stdout, [token_type |-> r.ret.token.token_type,
                                             name |-> r.ret.token.name,
                                             value |-> r.ret.token.value])
                        ELSE stdout
           /\ stderr' = IF r.ret.tag = "Err" THEN Append(stderr, r.ret.error)
                        ELSE stderr
    /\ UNCHANGED <<full_str, source>>

\* a client calls lexer.next()
CallNext ==
    /\ pc = "client"
    /\ index < Len(source) + MaxOver
    /\ index' = next(source, index).index
    /\ result' = Call("next", index, NoRet, next(source, index).ret)
    /\ UNCHANGED <<full_str, source, pc, out, stdout, stderr>>

\* peek written as next: it returns the character and moves the cursor
CallPeek_advancing ==
    /\ pc = "client"
    /\ index < Len(source) + MaxOver
    /\ index' = index + 1
    /\ result' = Call("peek", index, NoRet, peek(source, index))
    /\ UNCHANGED <<full_str, source, pc, out, stdout, stderr>>

\* a client calls lexer.peek()
CallPeek ==
    /\ pc = "client"
    /\ result' = Call("peek", index, NoRet, peek(source, index))
    /\ UNCHANGED <<full_str, source, index, pc, out, stdout, stderr>>

\* a client calls lexer.scan_token()
CallScanToken ==
    /\ pc = "client"
    /\ index < Len(source) + MaxOver
    /\ LET r == scan_token(source, full_str, index)
       IN  /\ index' = r.index
           /\ result' = Call("scan_token", index, r.ret, NoChar)
           /\ pc' = IF r.ret.tag = "Panic" THEN "panicked" ELSE "client"
    /\ UNCHANGED <<full_str, source, out, stdout, stderr>>

Next == MainLoop \/ CallNext \/ CallPeek \/ CallScanToken

Spec == Init /\ [][Next]_vars

TypeOK ==
    /\ index \in Nat
    /\ pc \in {"main_loop", "main_returned", "panicked", "client"}
    /\ source = ToChars(full_str)


(***************************************************************************)
(* The claims.  `result` is the last call made on the lexer, so            *)
(* result.op = "scan_token" says that a scan_token call has just returned: *)
(* it started at cursor result.start and left the cursor at index.         *)
(***************************************************************************)
Scanned == result.op = "scan_token"

\* the token of a call that returned Ok(Some(token))
IsToken(ret, token_type) == ret.tag = "Ok" /\ ret.token.token_type = token_type

SpanIs(ret, a, b) == ret.token.span = [start |-> a, end |-> b]

\* the source holds the characters a, b at positions i, i + 1
PairAt(i, a, b) ==
    i + 1 < Len(source) /\ At(source, i) = a /\ At(source, i + 1) = b

\* C1: a scan_token call that starts at position i on "<=", ">=" or "!="
\* returns one LessEqual, GreaterEqual or NotEqual token with span [i, i+2)
\* and leaves the cursor at i + 2.
C1_TwoCharacterToken ==
    \A op \in {<<"<", "LessEqual">>, <<">", "GreaterEqual">>, <<"!", "NotEqual">>} :
        (Scanned /\ PairAt(result.start, op[1], "="))
            => /\ IsToken(result.ret, op[2])
               /\ SpanIs(result.ret, result.start, result.start + 2)
               /\ index = result.start + 2

\* C2: a scan_token call that consumes a '!' which is the last character of
\* the source returns a failure, not the End-of-expression token or another
\* token.
C2_BangAtEndFails ==
    (/\ Scanned
     /\ result.start = Len(source) - 1
     /\ Len(source) > 0
     /\ At(source, result.start) = "!")
        => result.ret.tag = "Err"

\* C3: every token scan_token returns, the End-of-expression token and the
\* tokens of an empty source included, has a span with
\* start <= end <= length of the source.
C3_SpanWithinSource ==
    (Scanned /\ result.ret.tag = "Ok")
        => /\ result.ret.token.span.start <= result.ret.token.span.end
           /\ result.ret.token.span.end <= Len(source)

\* C4: after any sequence of next, peek and scan_token calls the cursor is
\* within [0, length of the source], and next at or past the end returns
\* none without moving the cursor.
C4_CursorWithinSource ==
    /\ index \in 0..Len(source)
    /\ (result.op = "next" /\ result.start >= Len(source))
           => (result.ch = NoChar /\ index = result.start)

Num(m) == [class |-> "finite", neg |-> FALSE, mant |-> m, exp |-> 0]

Op(token_type, a, b) == some_token(token_type, NoName, NoValue, a, b)

\* the tokens the scenario lists for "5 <= 35*test^2 <= 35", each with the
\* span of its substring
MainExpected ==
    << some_token("Constant", NoName, Num(5), 0, 1),
       Op("Space", 1, 2),
       Op("LessEqual", 2, 4),
       Op("Space", 4, 5),
       some_token("Constant", NoName, Num(35), 5, 7),
       Op("Multiply", 7, 8),
       some_token("Variable", <<"t", "e", "s", "t">>, NoValue, 8, 12),
       Op("Power", 12, 13),
       some_token("Constant", NoName, Num(2), 13, 14),
       Op("Space", 14, 15),
       Op("LessEqual", 15, 17),
       Op("Space", 17, 18),
       some_token("Constant", NoName, Num(35), 18, 20) >>

\* C5: scanning "5 <= 35*test^2 <= 35" by repeated scan_token calls yields
\* exactly the listed tokens in order, then End-of-expression, with no
\* failure, each token with the span of its substring.
C5_MainScenario ==
    (source = MainText /\ pc \in {"main_loop", "main_returned", "panicked"})
        => /\ pc # "panicked"
           /\ stderr = << >>
           /\ \A k \in 1..Len(out) :
                 IF k <= Len(MainExpected)
                 THEN out[k].ret = MainExpected[k]
                 ELSE k = Len(MainExpected) + 1
                      /\ IsToken(out[k].ret, "EndOfExpression")


\* the run of the driver: main's loop, whatever it has come to
InMain == pc \in {"main_loop", "main_returned"} \/ (pc = "panicked" /\ out # << >>)

OneCharacterSet == {"+", "-", "*", "/", "^", ".", "(", ")", "=", " "}

OneCharacterSeq == <<"+", "-", "*", "/", "^", ".", "(", ")", "=", " ">>

OneCharacterKinds ==
    <<"Plus", "Minus", "Multiply", "Divide", "Power", "Dot",
      "OpeningParenthesis", "ClosingParenthesis", "Equals", "Space">>

\* the kind the claim gives the character c
KindOf(c) ==
    OneCharacterKinds[CHOOSE k \in 1..Len(OneCharacterSeq) : OneCharacterSeq[k] = c]

OnlyOneCharacterTokens == \A k \in 1..Len(source) : source[k] \in OneCharacterSet

\* C6: for a source made only of + - * / ^ . ( ) = and space, repeated
\* scan_token calls return, before the terminal token, one token per
\* character in input order: the k-th (from 0) has the kind of the k-th
\* character and span [k, k+1); no space is skipped.
C6_OneTokenPerCharacter ==
    (InMain /\ OnlyOneCharacterTokens)
        => /\ pc # "panicked"
           /\ Len(out) <= Len(source) + 1
           /\ (pc = "main_returned" => Len(out) = Len(source) + 1)
           /\ \A k \in 1..Len(out) :
                 IF k <= Len(source)
                 THEN /\ IsToken(out[k].ret, KindOf(source[k]))
                      /\ SpanIs(out[k].ret, k - 1, k)
                 ELSE IsToken(out[k].ret, "EndOfExpression")

\* C6 happens: a text of one-character tokens, a space among them, scanned
\* to the end
C6_Witness ==
    /\ pc = "main_returned"
    /\ OnlyOneCharacterTokens
    /\ Len(source) = MaxLen
    /\ \E k \in 1..Len(source) : source[k] = " "
    /\ \E k \in 1..Len(source) : source[k] = "("

\* C7: a scan_token call that consumes a '!' at position i followed by a
\* character c other than '=' returns a failure naming position i and c, and
\* does not consume c: the cursor is i + 1.  For "!x": position 0, x.
C7_BangFailure ==
    (/\ Scanned
     /\ result.start + 1 < Len(source)
     /\ At(source, result.start) = "!"
     /\ At(source, result.start + 1) # "=")
        => /\ result.ret.tag = "Err"
           /\ result.ret.error =
                  [format |-> BangFormat, pos |-> result.start,
                   shown |-> <<At(source, result.start + 1)>>]
           /\ index = result.start + 1

\* C7 happens: "!x" scanned once, and a bang further in a text
C7_Witness ==
    /\ Scanned
    /\ result.ret.tag = "Err"
    /\ result.ret.error.format = BangFormat
    /\ \/ source = <<"!", "x">>
       \/ result.start > 0

\* the end of the run of characters of the set S that starts at i
RECURSIVE RunEnd(_, _)
RunEnd(i, S) ==
    IF i < Len(source) /\ At(source, i) \in S THEN RunEnd(i + 1, S) ELSE i

\* the characters of the source at positions [a, b)
Characters(a, b) == SubSeq(source, a + 1, b)

\* C8: a scan_token call on a letter at position i returns Variable with
\* exactly the letters of the maximal run of ASCII letters from i and span
\* [i, j), j the first position that holds no ASCII letter; a digit or an
\* underscore after the run is not merged.  "abc123" gives Variable("abc")
\* [0,3) and then Constant(123) [3,6).
C8_IdentifierRun ==
    /\ (Scanned /\ result.start < Len(source) /\ IsLetter(At(source, result.start)))
           => LET j == RunEnd(result.start, LowerLetters \cup UpperLetters)
              IN  /\ result.ret =
                         some_token("Variable", Characters(result.start, j),
                                    NoValue, result.start, j)
                  /\ index = j
    /\ (InMain /\ source = <<"a", "b", "c", "1", "2", "3">> /\ Len(out) >= 2)
           => out[2].ret = some_token("Constant", NoName, Num(123), 3, 6)

NumberCharacters == Digits \cup {".", "_"}

Count(text, c) == Cardinality({k \in 1..Len(text) : text[k] = c})

\* C9: a scan_token call that starts on a digit at position i consumes the
\* maximal run of digits, '.' and '_' from i; when the run holds two or more
\* '.' or any '_' the call returns a failure that carries i and the whole
\* run, returns no Constant, and leaves the cursor just after the run.
C9_MalformedNumber ==
    (Scanned /\ result.start < Len(source) /\ IsDigit(At(source, result.start)))
        => LET j == RunEnd(result.start, NumberCharacters)
               run == Characters(result.start, j)
           IN  (Count(run, ".") >= 2 \/ Count(run, "_") >= 1)
                   => /\ result.ret = Err(NumberFormat, result.start, run)
                      /\ index = j


\* the call that returned the k-th result of main's loop began with nothing
\* left to scan but, at most, a last '!'
NothingLeftAt(k) ==
    \/ out[k].start = Len(source)
    \/ out[k].start = Len(source) - 1 /\ source[Len(source)] = "!"

\* C10: on an empty source the first scan_token call returns the
\* End-of-expression token; on a non-empty source without lexical error a
\* caller that stops at the first End-of-expression token receives it after
\* finitely many calls (each call moves the cursor, and the loop is still
\* running only while the cursor is within the source, so at most
\* length + 1 calls are made), once, after all content tokens and with
\* every character of the source consumed.
C10_TerminalToken ==
    InMain =>
        /\ (source = << >> /\ out # << >>)
               => IsToken(out[1].ret, "EndOfExpression")
        /\ (source # << >> /\ stderr = << >> /\ pc # "panicked")
               => /\ Len(out) <= Len(source) + 1
                  /\ Len(out) <= index
                  /\ pc = "main_loop" => index <= Len(source)
                  /\ (pc = "main_returned") =
                         (out # << >> /\ IsToken(out[Len(out)].ret, "EndOfExpression"))
                  /\ \A k \in 1..Len(out) :
                        IF IsToken(out[k].ret, "EndOfExpression")
                        THEN /\ k = Len(out)
                             /\ NothingLeftAt(k)
                             /\ out[k].index > Len(source)
                        ELSE /\ out[k].ret.tag = "Ok"
                             /\ out[k].start < Len(source)
                             /\ out[k].index > out[k].start
                             /\ k > 1 => out[k].start = out[k - 1].index

\* C10 happens: a text of MaxLen characters scanned without failure to the
\* terminal token, after two content tokens or more
C10_Witness ==
    /\ pc = "main_returned"
    /\ stderr = << >>
    /\ Len(source) = MaxLen
    /\ Len(out) >= 3


\* the number a text of digits with at most one '.' denotes, read off the
\* text: the digits before and after the dot, as mant * 10^exp
Denoted(text) ==
    LET digits == SelectSeq(text, LAMBDA c : c # ".")
        dot == FirstIn(text, {"."})
        places == IF dot = 0 THEN 0 ELSE Len(text) - dot
        n == Normalise(DigitsValue(digits), 0 - places)
    IN  [class |-> "finite", neg |-> FALSE, mant |-> n.mant, exp |-> n.exp]

\* C11: a scan_token call on a literal of digits and at most one '.', which
\* begins with a digit at position i and is followed by no digit, '.' or
\* '_', returns one Constant token with span [i, i + length of the literal)
\* and the value the literal denotes.
C11_NumericLiteral ==
    (Scanned /\ result.start < Len(source) /\ IsDigit(At(source, result.start)))
        => LET j == RunEnd(result.start, NumberCharacters)
               literal == Characters(result.start, j)
           IN  (Count(literal, ".") <= 1 /\ Count(literal, "_") = 0)
                   => /\ result.ret =
                             some_token("Constant", NoName, Denoted(literal),
                                        result.start, j)
                      /\ index = j

\* C12: a scan_token call moves the cursor by the number of characters it
\* consumed: by one at least when a character remains, and not at all when
\* it returns the End-of-expression token because no character remains.
C12_CursorAdvance ==
    Scanned
        => /\ result.start < Len(source) => index > result.start
           /\ (result.start >= Len(source)
               /\ IsToken(result.ret, "EndOfExpression"))
                  => index = result.start


\* C13: once scan_token has returned the End-of-expression token, a further
\* scan_token call returns the End-of-expression token again with the same
\* span, never a failure or another token, and leaves the cursor unchanged.
C13_IdempotentTerminal ==
    [][(/\ Scanned
        /\ IsToken(result.ret, "EndOfExpression")
        /\ result'.op = "scan_token")
           => (result'.ret = result.ret /\ index' = index)]_vars

\* the k-th result of main's loop came after a failure on an unexpected
\* character
AfterUnexpected(k) ==
    \E j \in 1..(k - 1) :
        out[j].ret.tag = "Err" /\ out[j].ret.error.format = UnexpectedFormat

\* the characters of the source that the span of a token covers
Covered(token) == Characters(token.span.start, token.span.end)

\* C14: after scan_token has failed on an unexpected character (a non-ASCII
\* one, of more than one byte, included), the later calls go on from the
\* advanced cursor without crashing, and each Variable or Constant they
\* return carries exactly the characters of the source at its span.
C14_ResumeAfterFailure ==
    InMain =>
        \A k \in 1..Len(out) :
            AfterUnexpected(k)
                => /\ out[k].ret.tag # "Panic"
                   /\ out[k].start = out[k - 1].index
                   /\ IsToken(out[k].ret, "Variable")
                          => out[k].ret.token.name = Covered(out[k].ret.token)
                   /\ IsToken(out[k].ret, "Constant")
                          => ParseF64(Covered(out[k].ret.token)) =
                                 [ok |-> TRUE, value |-> out[k].ret.token.value]

\* C15: the cursor starts at 0 and no next, peek or scan_token call makes it
\* smaller or resets it; peek leaves it as it is; no call changes the
\* source buffer.
C15_CursorMonotone ==
    /\ index = 0
    /\ [][/\ index' >= index
          /\ result'.op = "peek" => index' = index
          /\ source' = source
          /\ full_str' = full_str]_vars

\* C15 happens: a peek made after the cursor has moved past the end
C15_Witness ==
    /\ result.op = "peek"
    /\ index > Len(source)
    /\ Len(source) > 0


\* C16: a scan_token call that consumes '<' or '>' at position i, with no
\* character after it or one that is not '=', returns Less or Greater with
\* span [i, i+1) and does not consume the character it looked at: the
\* cursor is i + 1 and the following call starts there.
C16_OneCharacterComparison ==
    /\ \A op \in {<<"<", "Less">>, <<">", "Greater">>} :
          (/\ Scanned
           /\ result.start < Len(source)
           /\ At(source, result.start) = op[1]
           /\ ~PairAt(result.start, op[1], "="))
              => /\ result.ret = Op(op[2], result.start, result.start + 1)
                 /\ index = result.start + 1
    /\ InMain =>
          \A k \in 1..(Len(out) - 1) :
              (IsToken(out[k].ret, "Less") \/ IsToken(out[k].ret, "Greater"))
                  => out[k + 1].start = out[k].start + 1

\* C16 happens: main's loop received Greater for a '>' inside a text and
\* went on to the character after it
C16_Witness ==
    /\ InMain
    /\ \E k \in 2..(Len(out) - 1) :
          /\ IsToken(out[k].ret, "Greater")
          /\ out[k + 1].start < Len(source)

\* the characters some arm other than the default one takes
Expected ==
    OneCharacterSet \cup {"<", ">", "!"} \cup Digits
        \cup LowerLetters \cup UpperLetters

\* C17: a scan_token call whose first character, at position i, is none of
\* space, + - * / ^ . ( ) = < > !, a digit or an ASCII letter returns a
\* failure naming i and that character, returns no token and consumes
\* that one character: the cursor is i + 1.
C17_UnexpectedCharacter ==
    (Scanned /\ result.start < Len(source)
     /\ At(source, result.start) \notin Expected)
        => /\ result.ret =
                  Err(UnexpectedFormat, result.start, <<At(source, result.start)>>)
           /\ index = result.start + 1

\* C17 happens: a failure on a non-ASCII character, and on '_', further in
\* a text
C17_Witness ==
    /\ Scanned
    /\ result.start > 0
    /\ result.ret.tag = "Err"
    /\ result.ret.error.format = UnexpectedFormat
    /\ result.ret.error.shown \in { <<"U+00E9">>, <<"_">> }

\* C18: when a source is scanned from the start without failure, the spans
\* of the tokens before the End-of-expression token tile it: the first
\* starts at 0, each starts where the one before ends, the last ends at the
\* length of the source; each span is [cursor before the call, cursor after).
C18_SpansTile ==
    (InMain /\ stderr = << >> /\ pc # "panicked")
        => \A k \in 1..Len(out) :
              ~IsToken(out[k].ret, "EndOfExpression")
                  => /\ SpanIs(out[k].ret, out[k].start, out[k].index)
                     /\ k = 1 => out[k].ret.token.span.start = 0
                     /\ k > 1 => out[k].ret.token.span.start =
                                     out[k - 1].ret.token.span.end
                     /\ (k < Len(out) /\ IsToken(out[k + 1].ret, "EndOfExpression"))
                            => out[k].ret.token.span.end = Len(source)

\* C19: main's loop, which goes on after a failure, ends for every source:
\* each scan_token call returns and moves the cursor by one at least, and
\* the End-of-expression token is returned after length + 1 calls at most,
\* failures or not.
C19_DriverTerminates ==
    InMain
        => /\ pc # "panicked"
           /\ \A k \in 1..Len(out) : out[k].index > out[k].start
           /\ Len(out) <= Len(source) + 1
           /\ pc = "main_loop" => index <= Len(source)
           /\ pc = "main_returned"
                  => IsToken(out[Len(out)].ret, "EndOfExpression")

ProducedKinds ==
    {"Plus", "Minus", "Multiply", "Divide", "Power", "Dot",
     "OpeningParenthesis", "ClosingParenthesis", "Equals", "Space",
     "Less", "Greater", "LessEqual", "GreaterEqual", "NotEqual",
     "Constant", "Variable", "EndOfExpression"}

=============================================================================
